---- MODULE Spec2Model ----
(***************************************************************************)
(* The TextRank preprocessing endpoint of kiwi-python-service              *)
(* (textrank_endpoint.py): validate_input and the request handler          *)
(* preprocess_for_textrank, run by one or several request threads against  *)
(* a deterministic kiwi_instance.                                          *)
(*                                                                         *)
(* Python values are tagged records [t |-> type, v |-> value]; a str is    *)
(* the sequence of its Unicode code points, a dict a function from its     *)
(* keys, a list or tuple a sequence.                                       *)
(***************************************************************************)
EXTENDS Integers, Sequences, FiniteSets, TLC

\* ------------------------------------------------------------------ bounds

\* Longest request text, in characters (one sentence per character, below).
MaxTextLen == 3
\* Last reading of the wall clock, in microseconds.
MaxClock == 1
\* Request threads of the concurrent specification.
NumReq == 2

\* datetime's %f field counts the microseconds of the current second.
MicrosPerSecond == 1000000

\* ----------------------------------------------------------- Python values

PyNone == [t |-> "none"]
PyBool(b) == [t |-> "bool", v |-> b]
PyInt(n) == [t |-> "int", v |-> n]
PyStr(s) == [t |-> "str", v |-> s]
PyList(l) == [t |-> "list", v |-> l]
PyDict(f) == [t |-> "dict", v |-> f]

\* Python truthiness: `if x`, `not x`.
Truthy(x) ==
    CASE x.t = "none" -> FALSE
      [] x.t = "bool" -> x.v
      [] x.t = "int" -> x.v # 0
      [] x.t = "str" -> Len(x.v) > 0
      [] x.t = "list" -> Len(x.v) > 0
      [] x.t = "dict" -> DOMAIN x.v # {}

\* dict.get(key, default)
DictGet(d, key, default) == IF key \in DOMAIN d.v THEN d.v[key] ELSE default

\* str.lower() follows the Unicode character database of the interpreter
\* (Unicode 14.0). LowerGroups lists every code point whose lower-case form
\* is one other code point, as <<first, last, step, offset>>: the code points
\* first, first + step, ..., last map to themselves plus offset.
LowerGroups == {
    <<65, 90, 1, 32>>, <<192, 214, 1, 32>>, <<216, 222, 1, 32>>,
    <<256, 302, 2, 1>>, <<306, 310, 2, 1>>, <<313, 327, 2, 1>>,
    <<330, 374, 2, 1>>, <<376, 376, 1, -121>>, <<377, 381, 2, 1>>,
    <<385, 385, 1, 210>>, <<386, 388, 2, 1>>, <<390, 390, 1, 206>>,
    <<391, 391, 1, 1>>, <<393, 394, 1, 205>>, <<395, 395, 1, 1>>,
    <<398, 398, 1, 79>>, <<399, 399, 1, 202>>, <<400, 400, 1, 203>>,
    <<401, 401, 1, 1>>, <<403, 403, 1, 205>>, <<404, 404, 1, 207>>,
    <<406, 406, 1, 211>>, <<407, 407, 1, 209>>, <<408, 408, 1, 1>>,
    <<412, 412, 1, 211>>, <<413, 413, 1, 213>>, <<415, 415, 1, 214>>,
    <<416, 420, 2, 1>>, <<422, 422, 1, 218>>, <<423, 423, 1, 1>>,
    <<425, 425, 1, 218>>, <<428, 428, 1, 1>>, <<430, 430, 1, 218>>,
    <<431, 431, 1, 1>>, <<433, 434, 1, 217>>, <<435, 437, 2, 1>>,
    <<439, 439, 1, 219>>, <<440, 440, 1, 1>>, <<444, 444, 1, 1>>,
    <<452, 452, 1, 2>>, <<453, 453, 1, 1>>, <<455, 455, 1, 2>>,
    <<456, 456, 1, 1>>, <<458, 458, 1, 2>>, <<459, 475, 2, 1>>,
    <<478, 494, 2, 1>>, <<497, 497, 1, 2>>, <<498, 500, 2, 1>>,
    <<502, 502, 1, -97>>, <<503, 503, 1, -56>>, <<504, 542, 2, 1>>,
    <<544, 544, 1, -130>>, <<546, 562, 2, 1>>, <<570, 570, 1, 10795>>,
    <<571, 571, 1, 1>>, <<573, 573, 1, -163>>, <<574, 574, 1, 10792>>,
    <<577, 577, 1, 1>>, <<579, 579, 1, -195>>, <<580, 580, 1, 69>>,
    <<581, 581, 1, 71>>, <<582, 590, 2, 1>>, <<880, 882, 2, 1>>,
    <<886, 886, 1, 1>>, <<895, 895, 1, 116>>, <<902, 902, 1, 38>>,
    <<904, 906, 1, 37>>, <<908, 908, 1, 64>>, <<910, 911, 1, 63>>,
    <<913, 929, 1, 32>>, <<931, 939, 1, 32>>, <<975, 975, 1, 8>>,
    <<984, 1006, 2, 1>>, <<1012, 1012, 1, -60>>, <<1015, 1015, 1, 1>>,
    <<1017, 1017, 1, -7>>, <<1018, 1018, 1, 1>>, <<1021, 1023, 1, -130>>,
    <<1024, 1039, 1, 80>>, <<1040, 1071, 1, 32>>, <<1120, 1152, 2, 1>>,
    <<1162, 1214, 2, 1>>, <<1216, 1216, 1, 15>>, <<1217, 1229, 2, 1>>,
    <<1232, 1326, 2, 1>>, <<1329, 1366, 1, 48>>, <<4256, 4293, 1, 7264>>,
    <<4295, 4295, 1, 7264>>, <<4301, 4301, 1, 7264>>, <<5024, 5103, 1, 38864>>,
    <<5104, 5109, 1, 8>>, <<7312, 7354, 1, -3008>>, <<7357, 7359, 1, -3008>>,
    <<7680, 7828, 2, 1>>, <<7838, 7838, 1, -7615>>, <<7840, 7934, 2, 1>>,
    <<7944, 7951, 1, -8>>, <<7960, 7965, 1, -8>>, <<7976, 7983, 1, -8>>,
    <<7992, 7999, 1, -8>>, <<8008, 8013, 1, -8>>, <<8025, 8031, 2, -8>>,
    <<8040, 8047, 1, -8>>, <<8072, 8079, 1, -8>>, <<8088, 8095, 1, -8>>,
    <<8104, 8111, 1, -8>>, <<8120, 8121, 1, -8>>, <<8122, 8123, 1, -74>>,
    <<8124, 8124, 1, -9>>, <<8136, 8139, 1, -86>>, <<8140, 8140, 1, -9>>,
    <<8152, 8153, 1, -8>>, <<8154, 8155, 1, -100>>, <<8168, 8169, 1, -8>>,
    <<8170, 8171, 1, -112>>, <<8172, 8172, 1, -7>>, <<8184, 8185, 1, -128>>,
    <<8186, 8187, 1, -126>>, <<8188, 8188, 1, -9>>, <<8486, 8486, 1, -7517>>,
    <<8490, 8490, 1, -8383>>, <<8491, 8491, 1, -8262>>, <<8498, 8498, 1, 28>>,
    <<8544, 8559, 1, 16>>, <<8579, 8579, 1, 1>>, <<9398, 9423, 1, 26>>,
    <<11264, 11311, 1, 48>>, <<11360, 11360, 1, 1>>, <<11362, 11362, 1, -10743>>,
    <<11363, 11363, 1, -3814>>, <<11364, 11364, 1, -10727>>, <<11367, 11371, 2, 1>>,
    <<11373, 11373, 1, -10780>>, <<11374, 11374, 1, -10749>>, <<11375, 11375, 1, -10783>>,
    <<11376, 11376, 1, -10782>>, <<11378, 11378, 1, 1>>, <<11381, 11381, 1, 1>>,
    <<11390, 11391, 1, -10815>>, <<11392, 11490, 2, 1>>, <<11499, 11501, 2, 1>>,
    <<11506, 11506, 1, 1>>, <<42560, 42604, 2, 1>>, <<42624, 42650, 2, 1>>,
    <<42786, 42798, 2, 1>>, <<42802, 42862, 2, 1>>, <<42873, 42875, 2, 1>>,
    <<42877, 42877, 1, -35332>>, <<42878, 42886, 2, 1>>, <<42891, 42891, 1, 1>>,
    <<42893, 42893, 1, -42280>>, <<42896, 42898, 2, 1>>, <<42902, 42920, 2, 1>>,
    <<42922, 42922, 1, -42308>>, <<42923, 42923, 1, -42319>>, <<42924, 42924, 1, -42315>>,
    <<42925, 42925, 1, -42305>>, <<42926, 42926, 1, -42308>>, <<42928, 42928, 1, -42258>>,
    <<42929, 42929, 1, -42282>>, <<42930, 42930, 1, -42261>>, <<42931, 42931, 1, 928>>,
    <<42932, 42946, 2, 1>>, <<42948, 42948, 1, -48>>, <<42949, 42949, 1, -42307>>,
    <<42950, 42950, 1, -35384>>, <<42951, 42953, 2, 1>>, <<42960, 42960, 1, 1>>,
    <<42966, 42968, 2, 1>>, <<42997, 42997, 1, 1>>, <<65313, 65338, 1, 32>>,
    <<66560, 66599, 1, 40>>, <<66736, 66771, 1, 40>>, <<66928, 66938, 1, 39>>,
    <<66940, 66954, 1, 39>>, <<66956, 66962, 1, 39>>, <<66964, 66965, 1, 39>>,
    <<68736, 68786, 1, 64>>, <<71840, 71871, 1, 32>>, <<93760, 93791, 1, 32>>,
    <<125184, 125217, 1, 34>> }

\* The code points that are cased and not case-ignorable, as <<first, last>>
\* ranges: what str.lower() looks for around a capital sigma.
CasedRanges == {
    <<65, 90>>, <<97, 122>>, <<170, 170>>, <<181, 181>>, <<186, 186>>,
    <<192, 214>>, <<216, 246>>, <<248, 442>>, <<444, 447>>, <<452, 659>>,
    <<661, 687>>, <<880, 883>>, <<886, 887>>, <<891, 893>>, <<895, 895>>,
    <<902, 902>>, <<904, 906>>, <<908, 908>>, <<910, 929>>, <<931, 1013>>,
    <<1015, 1153>>, <<1162, 1327>>, <<1329, 1366>>, <<1376, 1416>>, <<4256, 4293>>,
    <<4295, 4295>>, <<4301, 4301>>, <<4304, 4346>>, <<4349, 4351>>, <<5024, 5109>>,
    <<5112, 5117>>, <<7296, 7304>>, <<7312, 7354>>, <<7357, 7359>>, <<7424, 7467>>,
    <<7531, 7543>>, <<7545, 7578>>, <<7680, 7957>>, <<7960, 7965>>, <<7968, 8005>>,
    <<8008, 8013>>, <<8016, 8023>>, <<8025, 8025>>, <<8027, 8027>>, <<8029, 8029>>,
    <<8031, 8061>>, <<8064, 8116>>, <<8118, 8124>>, <<8126, 8126>>, <<8130, 8132>>,
    <<8134, 8140>>, <<8144, 8147>>, <<8150, 8155>>, <<8160, 8172>>, <<8178, 8180>>,
    <<8182, 8188>>, <<8450, 8450>>, <<8455, 8455>>, <<8458, 8467>>, <<8469, 8469>>,
    <<8473, 8477>>, <<8484, 8484>>, <<8486, 8486>>, <<8488, 8488>>, <<8490, 8493>>,
    <<8495, 8500>>, <<8505, 8505>>, <<8508, 8511>>, <<8517, 8521>>, <<8526, 8526>>,
    <<8544, 8575>>, <<8579, 8580>>, <<9398, 9449>>, <<11264, 11387>>, <<11390, 11492>>,
    <<11499, 11502>>, <<11506, 11507>>, <<11520, 11557>>, <<11559, 11559>>, <<11565, 11565>>,
    <<42560, 42605>>, <<42624, 42651>>, <<42786, 42863>>, <<42865, 42887>>, <<42891, 42894>>,
    <<42896, 42954>>, <<42960, 42961>>, <<42963, 42963>>, <<42965, 42969>>, <<42997, 42998>>,
    <<43002, 43002>>, <<43824, 43866>>, <<43872, 43880>>, <<43888, 43967>>, <<64256, 64262>>,
    <<64275, 64279>>, <<65313, 65338>>, <<65345, 65370>>, <<66560, 66639>>, <<66736, 66771>>,
    <<66776, 66811>>, <<66928, 66938>>, <<66940, 66954>>, <<66956, 66962>>, <<66964, 66965>>,
    <<66967, 66977>>, <<66979, 66993>>, <<66995, 67001>>, <<67003, 67004>>, <<68736, 68786>>,
    <<68800, 68850>>, <<71840, 71903>>, <<93760, 93823>>, <<119808, 119892>>, <<119894, 119964>>,
    <<119966, 119967>>, <<119970, 119970>>, <<119973, 119974>>, <<119977, 119980>>, <<119982, 119993>>,
    <<119995, 119995>>, <<119997, 120003>>, <<120005, 120069>>, <<120071, 120074>>, <<120077, 120084>>,
    <<120086, 120092>>, <<120094, 120121>>, <<120123, 120126>>, <<120128, 120132>>, <<120134, 120134>>,
    <<120138, 120144>>, <<120146, 120485>>, <<120488, 120512>>, <<120514, 120538>>, <<120540, 120570>>,
    <<120572, 120596>>, <<120598, 120628>>, <<120630, 120654>>, <<120656, 120686>>, <<120688, 120712>>,
    <<120714, 120744>>, <<120746, 120770>>, <<120772, 120779>>, <<122624, 122633>>, <<122635, 122654>>,
    <<125184, 125251>>, <<127280, 127305>>, <<127312, 127337>>, <<127344, 127369>> }

\* The case-ignorable code points, as <<first, last>> ranges: what
\* str.lower() skips around a capital sigma.
CaseIgnorableRanges == {
    <<39, 39>>, <<46, 46>>, <<58, 58>>, <<94, 94>>, <<96, 96>>,
    <<168, 168>>, <<173, 173>>, <<175, 175>>, <<180, 180>>, <<183, 184>>,
    <<688, 879>>, <<884, 885>>, <<890, 890>>, <<900, 901>>, <<903, 903>>,
    <<1155, 1161>>, <<1369, 1369>>, <<1375, 1375>>, <<1425, 1469>>, <<1471, 1471>>,
    <<1473, 1474>>, <<1476, 1477>>, <<1479, 1479>>, <<1524, 1524>>, <<1536, 1541>>,
    <<1552, 1562>>, <<1564, 1564>>, <<1600, 1600>>, <<1611, 1631>>, <<1648, 1648>>,
    <<1750, 1757>>, <<1759, 1768>>, <<1770, 1773>>, <<1807, 1807>>, <<1809, 1809>>,
    <<1840, 1866>>, <<1958, 1968>>, <<2027, 2037>>, <<2042, 2042>>, <<2045, 2045>>,
    <<2070, 2093>>, <<2137, 2139>>, <<2184, 2184>>, <<2192, 2193>>, <<2200, 2207>>,
    <<2249, 2306>>, <<2362, 2362>>, <<2364, 2364>>, <<2369, 2376>>, <<2381, 2381>>,
    <<2385, 2391>>, <<2402, 2403>>, <<2417, 2417>>, <<2433, 2433>>, <<2492, 2492>>,
    <<2497, 2500>>, <<2509, 2509>>, <<2530, 2531>>, <<2558, 2558>>, <<2561, 2562>>,
    <<2620, 2620>>, <<2625, 2626>>, <<2631, 2632>>, <<2635, 2637>>, <<2641, 2641>>,
    <<2672, 2673>>, <<2677, 2677>>, <<2689, 2690>>, <<2748, 2748>>, <<2753, 2757>>,
    <<2759, 2760>>, <<2765, 2765>>, <<2786, 2787>>, <<2810, 2815>>, <<2817, 2817>>,
    <<2876, 2876>>, <<2879, 2879>>, <<2881, 2884>>, <<2893, 2893>>, <<2901, 2902>>,
    <<2914, 2915>>, <<2946, 2946>>, <<3008, 3008>>, <<3021, 3021>>, <<3072, 3072>>,
    <<3076, 3076>>, <<3132, 3132>>, <<3134, 3136>>, <<3142, 3144>>, <<3146, 3149>>,
    <<3157, 3158>>, <<3170, 3171>>, <<3201, 3201>>, <<3260, 3260>>, <<3263, 3263>>,
    <<3270, 3270>>, <<3276, 3277>>, <<3298, 3299>>, <<3328, 3329>>, <<3387, 3388>>,
    <<3393, 3396>>, <<3405, 3405>>, <<3426, 3427>>, <<3457, 3457>>, <<3530, 3530>>,
    <<3538, 3540>>, <<3542, 3542>>, <<3633, 3633>>, <<3636, 3642>>, <<3654, 3662>>,
    <<3761, 3761>>, <<3764, 3772>>, <<3782, 3782>>, <<3784, 3789>>, <<3864, 3865>>,
    <<3893, 3893>>, <<3895, 3895>>, <<3897, 3897>>, <<3953, 3966>>, <<3968, 3972>>,
    <<3974, 3975>>, <<3981, 3991>>, <<3993, 4028>>, <<4038, 4038>>, <<4141, 4144>>,
    <<4146, 4151>>, <<4153, 4154>>, <<4157, 4158>>, <<4184, 4185>>, <<4190, 4192>>,
    <<4209, 4212>>, <<4226, 4226>>, <<4229, 4230>>, <<4237, 4237>>, <<4253, 4253>>,
    <<4348, 4348>>, <<4957, 4959>>, <<5906, 5908>>, <<5938, 5939>>, <<5970, 5971>>,
    <<6002, 6003>>, <<6068, 6069>>, <<6071, 6077>>, <<6086, 6086>>, <<6089, 6099>>,
    <<6103, 6103>>, <<6109, 6109>>, <<6155, 6159>>, <<6211, 6211>>, <<6277, 6278>>,
    <<6313, 6313>>, <<6432, 6434>>, <<6439, 6440>>, <<6450, 6450>>, <<6457, 6459>>,
    <<6679, 6680>>, <<6683, 6683>>, <<6742, 6742>>, <<6744, 6750>>, <<6752, 6752>>,
    <<6754, 6754>>, <<6757, 6764>>, <<6771, 6780>>, <<6783, 6783>>, <<6823, 6823>>,
    <<6832, 6862>>, <<6912, 6915>>, <<6964, 6964>>, <<6966, 6970>>, <<6972, 6972>>,
    <<6978, 6978>>, <<7019, 7027>>, <<7040, 7041>>, <<7074, 7077>>, <<7080, 7081>>,
    <<7083, 7085>>, <<7142, 7142>>, <<7144, 7145>>, <<7149, 7149>>, <<7151, 7153>>,
    <<7212, 7219>>, <<7222, 7223>>, <<7288, 7293>>, <<7376, 7378>>, <<7380, 7392>>,
    <<7394, 7400>>, <<7405, 7405>>, <<7412, 7412>>, <<7416, 7417>>, <<7468, 7530>>,
    <<7544, 7544>>, <<7579, 7679>>, <<8125, 8125>>, <<8127, 8129>>, <<8141, 8143>>,
    <<8157, 8159>>, <<8173, 8175>>, <<8189, 8190>>, <<8203, 8207>>, <<8216, 8217>>,
    <<8228, 8228>>, <<8231, 8231>>, <<8234, 8238>>, <<8288, 8292>>, <<8294, 8303>>,
    <<8305, 8305>>, <<8319, 8319>>, <<8336, 8348>>, <<8400, 8432>>, <<11388, 11389>>,
    <<11503, 11505>>, <<11631, 11631>>, <<11647, 11647>>, <<11744, 11775>>, <<11823, 11823>>,
    <<12293, 12293>>, <<12330, 12333>>, <<12337, 12341>>, <<12347, 12347>>, <<12441, 12446>>,
    <<12540, 12542>>, <<40981, 40981>>, <<42232, 42237>>, <<42508, 42508>>, <<42607, 42610>>,
    <<42612, 42621>>, <<42623, 42623>>, <<42652, 42655>>, <<42736, 42737>>, <<42752, 42785>>,
    <<42864, 42864>>, <<42888, 42890>>, <<42994, 42996>>, <<43000, 43001>>, <<43010, 43010>>,
    <<43014, 43014>>, <<43019, 43019>>, <<43045, 43046>>, <<43052, 43052>>, <<43204, 43205>>,
    <<43232, 43249>>, <<43263, 43263>>, <<43302, 43309>>, <<43335, 43345>>, <<43392, 43394>>,
    <<43443, 43443>>, <<43446, 43449>>, <<43452, 43453>>, <<43471, 43471>>, <<43493, 43494>>,
    <<43561, 43566>>, <<43569, 43570>>, <<43573, 43574>>, <<43587, 43587>>, <<43596, 43596>>,
    <<43632, 43632>>, <<43644, 43644>>, <<43696, 43696>>, <<43698, 43700>>, <<43703, 43704>>,
    <<43710, 43711>>, <<43713, 43713>>, <<43741, 43741>>, <<43756, 43757>>, <<43763, 43764>>,
    <<43766, 43766>>, <<43867, 43871>>, <<43881, 43883>>, <<44005, 44005>>, <<44008, 44008>>,
    <<44013, 44013>>, <<64286, 64286>>, <<64434, 64450>>, <<65024, 65039>>, <<65043, 65043>>,
    <<65056, 65071>>, <<65106, 65106>>, <<65109, 65109>>, <<65279, 65279>>, <<65287, 65287>>,
    <<65294, 65294>>, <<65306, 65306>>, <<65342, 65342>>, <<65344, 65344>>, <<65392, 65392>>,
    <<65438, 65439>>, <<65507, 65507>>, <<65529, 65531>>, <<66045, 66045>>, <<66272, 66272>>,
    <<66422, 66426>>, <<67456, 67461>>, <<67463, 67504>>, <<67506, 67514>>, <<68097, 68099>>,
    <<68101, 68102>>, <<68108, 68111>>, <<68152, 68154>>, <<68159, 68159>>, <<68325, 68326>>,
    <<68900, 68903>>, <<69291, 69292>>, <<69446, 69456>>, <<69506, 69509>>, <<69633, 69633>>,
    <<69688, 69702>>, <<69744, 69744>>, <<69747, 69748>>, <<69759, 69761>>, <<69811, 69814>>,
    <<69817, 69818>>, <<69821, 69821>>, <<69826, 69826>>, <<69837, 69837>>, <<69888, 69890>>,
    <<69927, 69931>>, <<69933, 69940>>, <<70003, 70003>>, <<70016, 70017>>, <<70070, 70078>>,
    <<70089, 70092>>, <<70095, 70095>>, <<70191, 70193>>, <<70196, 70196>>, <<70198, 70199>>,
    <<70206, 70206>>, <<70367, 70367>>, <<70371, 70378>>, <<70400, 70401>>, <<70459, 70460>>,
    <<70464, 70464>>, <<70502, 70508>>, <<70512, 70516>>, <<70712, 70719>>, <<70722, 70724>>,
    <<70726, 70726>>, <<70750, 70750>>, <<70835, 70840>>, <<70842, 70842>>, <<70847, 70848>>,
    <<70850, 70851>>, <<71090, 71093>>, <<71100, 71101>>, <<71103, 71104>>, <<71132, 71133>>,
    <<71219, 71226>>, <<71229, 71229>>, <<71231, 71232>>, <<71339, 71339>>, <<71341, 71341>>,
    <<71344, 71349>>, <<71351, 71351>>, <<71453, 71455>>, <<71458, 71461>>, <<71463, 71467>>,
    <<71727, 71735>>, <<71737, 71738>>, <<71995, 71996>>, <<71998, 71998>>, <<72003, 72003>>,
    <<72148, 72151>>, <<72154, 72155>>, <<72160, 72160>>, <<72193, 72202>>, <<72243, 72248>>,
    <<72251, 72254>>, <<72263, 72263>>, <<72273, 72278>>, <<72281, 72283>>, <<72330, 72342>>,
    <<72344, 72345>>, <<72752, 72758>>, <<72760, 72765>>, <<72767, 72767>>, <<72850, 72871>>,
    <<72874, 72880>>, <<72882, 72883>>, <<72885, 72886>>, <<73009, 73014>>, <<73018, 73018>>,
    <<73020, 73021>>, <<73023, 73029>>, <<73031, 73031>>, <<73104, 73105>>, <<73109, 73109>>,
    <<73111, 73111>>, <<73459, 73460>>, <<78896, 78904>>, <<92912, 92916>>, <<92976, 92982>>,
    <<92992, 92995>>, <<94031, 94031>>, <<94095, 94111>>, <<94176, 94177>>, <<94179, 94180>>,
    <<110576, 110579>>, <<110581, 110587>>, <<110589, 110590>>, <<113821, 113822>>, <<113824, 113827>>,
    <<118528, 118573>>, <<118576, 118598>>, <<119143, 119145>>, <<119155, 119170>>, <<119173, 119179>>,
    <<119210, 119213>>, <<119362, 119364>>, <<121344, 121398>>, <<121403, 121452>>, <<121461, 121461>>,
    <<121476, 121476>>, <<121499, 121503>>, <<121505, 121519>>, <<122880, 122886>>, <<122888, 122904>>,
    <<122907, 122913>>, <<122915, 122916>>, <<122918, 122922>>, <<123184, 123197>>, <<123566, 123566>>,
    <<123628, 123631>>, <<125136, 125142>>, <<125252, 125259>>, <<127995, 127999>>, <<917505, 917505>>,
    <<917536, 917631>>, <<917760, 917999>> }

InRanges(c, rs) == \E r \in rs : r[1] <= c /\ c <= r[2]
IsCased(c) == InRanges(c, CasedRanges)
IsCaseIgnorable(c) == InRanges(c, CaseIgnorableRanges)

\* chr(c).lower(): the lower-case form of one code point, itself a string.
\* An ASCII code point changes only if it is one of A..Z; U+0130 is the one
\* code point whose form is two code points.
LowerChar(c) ==
    IF c < 128 THEN <<IF 65 <= c /\ c <= 90 THEN c + 32 ELSE c>>
    ELSE IF c = 304 THEN <<105, 775>>
    ELSE IF \E g \in LowerGroups : g[1] <= c /\ c <= g[2] /\ (c - g[1]) % g[3] = 0
    THEN LET g == CHOOSE g \in LowerGroups :
                     g[1] <= c /\ c <= g[2] /\ (c - g[1]) % g[3] = 0
         IN <<c + g[4]>>
    ELSE <<c>>

\* The capital sigma at position i of s is final: going back over the
\* case-ignorable code points there is a cased one, and going forward over
\* them there is none.
FinalSigma(s, i) ==
    /\ \E j \in 1..(i - 1) :
          /\ ~IsCaseIgnorable(s[j]) /\ IsCased(s[j])
          /\ \A k \in (j + 1)..(i - 1) : IsCaseIgnorable(s[k])
    /\ ~\E j \in (i + 1)..Len(s) :
          /\ ~IsCaseIgnorable(s[j]) /\ IsCased(s[j])
          /\ \A k \in (i + 1)..(j - 1) : IsCaseIgnorable(s[k])

\* str.lower(): code point by code point, a capital sigma (U+03A3) by its
\* place in the word.
RECURSIVE LowerFrom(_, _)
LowerFrom(s, i) ==
    IF i > Len(s) THEN <<>>
    ELSE (IF s[i] = 931
          THEN <<IF FinalSigma(s, i) THEN 962 ELSE 963>>
          ELSE LowerChar(s[i])) \o LowerFrom(s, i + 1)
Lower(s) == LowerFrom(s, 1)

\* str.isspace() of one code point: what str.strip() removes.
IsSpace(c) ==
    c \in {9, 10, 11, 12, 13, 28, 29, 30, 31, 32, 133, 160, 5760, 8232, 8233,
           8239, 8287, 12288} \cup (8192..8202)

\* str.strip(): drop leading and trailing whitespace.
RECURSIVE LStrip(_)
LStrip(s) == IF s # <<>> /\ IsSpace(Head(s)) THEN LStrip(Tail(s)) ELSE s
RECURSIVE RStrip(_)
RStrip(s) ==
    IF s # <<>> /\ IsSpace(s[Len(s)]) THEN RStrip(SubSeq(s, 1, Len(s) - 1)) ELSE s
Strip(s) == RStrip(LStrip(s))

\* str.startswith(prefix)
StartsWith(s, prefix) ==
    Len(s) >= Len(prefix) /\ SubSeq(s, 1, Len(prefix)) = prefix

\* ------------------------------------------------------------- stopwords

\* The 37 distinct words of the module-level set, as code points.
KOREAN_STOPWORDS == {
    <<51060>>, <<44536>>, <<51200>>, <<44163>>, <<49688>>, <<46321>>,
    <<46308>>, <<48143>>, <<50640>>, <<50640, 49436>>, <<51032>>, <<51012>>,
    <<47484>>, <<51060, 45796>>, <<51080, 45796>>, <<54616, 45796>>,
    <<51060, 47088>>, <<44536, 47088>>, <<51200, 47088>>, <<54620>>,
    <<50752>>, <<44284>>, <<51004, 47196>>, <<47196>>, <<50640, 44172>>,
    <<49104>>, <<45796>>, <<46020>>, <<47564>>, <<44620, 51648>>,
    <<50640, 45716>>, <<46993>>, <<51060, 46972>>, <<47728>>,
    <<44144, 45208>>, <<50640, 46020>>, <<46304, 51648>> }

\* ------------------------------------------------------------ validation

\* validate_input(data): the text, or the exception raised and its reason.
\* The four TextRankPreprocessingError messages are named "empty_payload",
\* "missing_text", "not_string", "blank_text". A truthy payload that is no
\* dict (a JSON array, string, number or true) has no get, and
\* data.get('text') raises AttributeError.
validate_input(data) ==
    LET invalid(reason) ==
            [ok |-> FALSE, raised |-> "TextRankPreprocessingError", error |-> reason]
    IN
    IF ~Truthy(data) THEN invalid("empty_payload")
    ELSE IF data.t # "dict"
    THEN [ok |-> FALSE, raised |-> "AttributeError", error |-> "internal"]
    ELSE LET text == DictGet(data, "text", PyNone) IN
         IF ~Truthy(text) THEN invalid("missing_text")
         ELSE IF text.t # "str" THEN invalid("not_string")
         ELSE IF Len(Strip(text.v)) = 0 THEN invalid("blank_text")
         ELSE [ok |-> TRUE, text |-> text]

\* ------------------------------------------------- the kiwi_instance stub

\* A morpheme as the handler reads it: indexable, [0] the form, [1] the tag.
Morpheme(form, tag, start, length) ==
    <<PyStr(form), PyStr(tag), PyInt(start), PyInt(length)>>

\* The characters a request text is made of: space, the ideographic space
\* U+3000, "#", and "a".."f".
SentenceChars == 97..102
TextChars == {32, 12288, 35} \cup SentenceChars

\* kiwi_instance.split_into_sents(text) followed by [sent.text for sent in
\* sentences]: the deterministic stub raises on a text holding "#" and
\* otherwise returns one span per non-space character, in document order.
RECURSIVE SpanTexts(_)
SpanTexts(s) ==
    IF s = <<>> THEN <<>>
    ELSE IF IsSpace(Head(s)) THEN SpanTexts(Tail(s))
    ELSE <<PyStr(<<Head(s)>>)>> \o SpanTexts(Tail(s))
split_into_sents(text) ==
    IF \E i \in 1..Len(text.v) : text.v[i] = 35
    THEN [raised |-> TRUE]
    ELSE [raised |-> FALSE, value |-> SpanTexts(text.v)]

\* kiwi_instance.analyze(sent_text): the ranked (tokens, score) candidates
\* of the deterministic stub, or the exception it raises.
\*   "a": two candidates; rank 0 is Kiwi/NNP, U+AC83/NNB (a stopword),
\*        Run/VV, fast/MAG; rank 1 is x/NNG
\*   "b": the analyzer raises
\*   "c": an empty candidate list
\*   "d": kiwi/NNG, then a morpheme that has a form and no tag
\*   "e": a morpheme whose tag is the number 7
\*   "f": KIWI/VA, U+C758/JKG (a stopword), and the form U+00C9 U+0130
\*        U+0391 U+03A3 tagged XSN, whose lower-cased copy has five code
\*        points and ends in the final sigma
analyze(sent_text) ==
    CASE sent_text.v = <<97>> ->
           [raised |-> FALSE, value |->
              << << << Morpheme(<<75, 105, 119, 105>>, <<78, 78, 80>>, 0, 4),
                       Morpheme(<<44163>>, <<78, 78, 66>>, 4, 1),
                       Morpheme(<<82, 117, 110>>, <<86, 86>>, 5, 3),
                       Morpheme(<<102, 97, 115, 116>>, <<77, 65, 71>>, 8, 4) >>,
                    PyInt(-1) >>,
                 << << Morpheme(<<120>>, <<78, 78, 71>>, 0, 1) >>, PyInt(-2) >> >>]
      [] sent_text.v = <<98>> -> [raised |-> TRUE]
      [] sent_text.v = <<99>> -> [raised |-> FALSE, value |-> <<>>]
      [] sent_text.v = <<100>> ->
           [raised |-> FALSE, value |->
              << << << Morpheme(<<107, 105, 119, 105>>, <<78, 78, 71>>, 0, 4),
                       << PyStr(<<120>>) >> >>,
                    PyInt(-1) >> >>]
      [] sent_text.v = <<101>> ->
           [raised |-> FALSE, value |->
              << << << << PyStr(<<84, 97, 103>>), PyInt(7), PyInt(0), PyInt(3) >> >>,
                    PyInt(-1) >> >>]
      [] sent_text.v = <<102>> ->
           [raised |-> FALSE, value |->
              << << << Morpheme(<<75, 73, 87, 73>>, <<86, 65>>, 0, 4),
                       Morpheme(<<51032>>, <<74, 75, 71>>, 4, 1),
                       Morpheme(<<201, 304, 913, 931>>, <<88, 83, 78>>, 5, 4) >>,
                    PyInt(-1) >> >>]
      [] OTHER -> [raised |-> TRUE]

\* ---------------------------------------------------- sentence processing

\* analyze(sent_text)[0][0]: the token list of the rank-0 candidate;
\* IndexError on an empty candidate list.
BestAnalysis(sent_text) ==
    LET result == analyze(sent_text) IN
    IF result.raised THEN [raised |-> TRUE]
    ELSE IF Len(result.value) = 0 THEN [raised |-> TRUE]
    ELSE [raised |-> FALSE, value |-> result.value[1][1]]

\* One pass of the extraction loop body: three appends, each of which can
\* raise (IndexError on morpheme[0] or morpheme[1], AttributeError on
\* .lower() of a form that is no str) after the earlier ones have been done.
AppendMorpheme(acc, morpheme) ==
    IF Len(morpheme) < 1 THEN [acc EXCEPT !.raised = TRUE]
    ELSE LET a1 == [acc EXCEPT !.tokens = Append(@, morpheme[1])] IN
         IF morpheme[1].t # "str" THEN [a1 EXCEPT !.raised = TRUE]
         ELSE LET a2 == [a1 EXCEPT !.normalized =
                            Append(@, PyStr(Lower(morpheme[1].v)))] IN
              IF Len(morpheme) < 2 THEN [a2 EXCEPT !.raised = TRUE]
              ELSE [a2 EXCEPT !.pos_tags = Append(@, morpheme[2])]

\* for morpheme in analysis: ... , stopping at the first exception.
RECURSIVE ExtractFrom(_, _, _)
ExtractFrom(analysis, i, acc) ==
    IF i > Len(analysis) \/ acc.raised THEN acc
    ELSE ExtractFrom(analysis, i + 1, AppendMorpheme(acc, analysis[i]))
ExtractMorphemes(analysis) ==
    ExtractFrom(analysis, 1,
        [tokens |-> <<>>, normalized |-> <<>>, pos_tags |-> <<>>, raised |-> FALSE])

\* if token not in KOREAN_STOPWORDS
NotStopword(token) == token.v \notin KOREAN_STOPWORDS

\* The positions of normalized the filtering loop keeps, in order.
RECURSIVE KeptFrom(_, _)
KeptFrom(normalized, i) ==
    IF i > Len(normalized) THEN <<>>
    ELSE IF NotStopword(normalized[i]) THEN <<i>> \o KeptFrom(normalized, i + 1)
    ELSE KeptFrom(normalized, i + 1)

\* FilterStopwords with the flag's test inverted.
FilterStopwords_Inverted(remove_stopwords, tokens, normalized, pos_tags) ==
    IF ~Truthy(remove_stopwords)
    THEN LET kept == KeptFrom(normalized, 1) IN
         [filtered_tokens |-> [k \in 1..Len(kept) |-> tokens[kept[k]]],
          filtered_normalized |-> [k \in 1..Len(kept) |-> normalized[kept[k]]],
          filtered_pos_tags |-> [k \in 1..Len(kept) |-> pos_tags[kept[k]]]]
    ELSE [filtered_tokens |-> tokens,
          filtered_normalized |-> normalized,
          filtered_pos_tags |-> pos_tags]

\* The stopword filtering: the three lists selected in lock-step when
\* remove_stopwords is truthy, the lists themselves otherwise.
FilterStopwords(remove_stopwords, tokens, normalized, pos_tags) ==
    IF Truthy(remove_stopwords)
    THEN LET kept == KeptFrom(normalized, 1) IN
         [filtered_tokens |-> [k \in 1..Len(kept) |-> tokens[kept[k]]],
          filtered_normalized |-> [k \in 1..Len(kept) |-> normalized[kept[k]]],
          filtered_pos_tags |-> [k \in 1..Len(kept) |-> pos_tags[kept[k]]]]
    ELSE [filtered_tokens |-> tokens,
          filtered_normalized |-> normalized,
          filtered_pos_tags |-> pos_tags]

\* ProcessSentence under enumerate(sentence_texts, 1): positions from 1.
ProcessSentence_OneBased(idx, sent_text, remove_stopwords) ==
    LET best == BestAnalysis(sent_text) IN
    IF best.raised THEN [raised |-> TRUE]
    ELSE LET acc == ExtractMorphemes(best.value) IN
         IF acc.raised THEN [raised |-> TRUE]
         ELSE LET f == FilterStopwords(remove_stopwords, acc.tokens,
                                       acc.normalized, acc.pos_tags) IN
              [raised |-> FALSE,
               value |-> [index |-> idx + 1,
                          sentence |-> sent_text,
                          tokens |-> f.filtered_tokens,
                          normalized |-> f.filtered_normalized,
                          posTags |-> f.filtered_pos_tags,
                          tokenCount |-> Len(f.filtered_tokens)]]

\* ProcessSentence with the exception caught inside the morpheme loop, so
\* that the lists built up to the failing morpheme are still emitted.
ProcessSentence_Partial(idx, sent_text, remove_stopwords) ==
    LET best == BestAnalysis(sent_text) IN
    IF best.raised THEN [raised |-> TRUE]
    ELSE LET acc == ExtractMorphemes(best.value) IN
         IF acc.raised
         THEN [raised |-> FALSE,
               value |-> [index |-> idx,
                          sentence |-> sent_text,
                          tokens |-> acc.tokens,
                          normalized |-> acc.normalized,
                          posTags |-> acc.pos_tags,
                          tokenCount |-> Len(acc.tokens)]]
         ELSE LET f == FilterStopwords(remove_stopwords, acc.tokens,
                                       acc.normalized, acc.pos_tags) IN
              [raised |-> FALSE,
               value |-> [index |-> idx,
                          sentence |-> sent_text,
                          tokens |-> f.filtered_tokens,
                          normalized |-> f.filtered_normalized,
                          posTags |-> f.filtered_pos_tags,
                          tokenCount |-> Len(f.filtered_tokens)]]

\* The body of the per-sentence try: the record appended to
\* processed_sentences, or raised when the except clause skips the sentence.
ProcessSentence(idx, sent_text, remove_stopwords) ==
    LET best == BestAnalysis(sent_text) IN
    IF best.raised THEN [raised |-> TRUE]
    ELSE LET acc == ExtractMorphemes(best.value) IN
         IF acc.raised THEN [raised |-> TRUE]
         ELSE LET f == FilterStopwords(remove_stopwords, acc.tokens,
                                       acc.normalized, acc.pos_tags) IN
              [raised |-> FALSE,
               value |-> [index |-> idx,
                          sentence |-> sent_text,
                          tokens |-> f.filtered_tokens,
                          normalized |-> f.filtered_normalized,
                          posTags |-> f.filtered_pos_tags,
                          tokenCount |-> Len(f.filtered_tokens)]]

\* ------------------------------------------------- key terms and the stats

\* IsKeyTag with the verb family forgotten.
IsKeyTag_NounOnly(tag) == StartsWith(tag.v, <<78>>)

\* tag.startswith('N') or tag.startswith('V') or tag == 'VA'
IsKeyTag(tag) ==
    StartsWith(tag.v, <<78>>) \/ StartsWith(tag.v, <<86>>) \/ tag.v = <<86, 65>>

\* The key-term loop: the set built, or raised (AttributeError) when some
\* tag of some record is no str and so has no startswith.
ExtractKeyTerms(processed) ==
    IF \E k \in 1..Len(processed) :
          \E i \in 1..Len(processed[k].posTags) : processed[k].posTags[i].t # "str"
    THEN [raised |-> TRUE]
    ELSE [raised |-> FALSE,
          value |-> UNION {
              {processed[k].normalized[i] :
                  i \in {j \in 1..Len(processed[k].posTags) :
                            IsKeyTag(processed[k].posTags[j])}} :
              k \in 1..Len(processed)}]

\* list(key_terms): the lists the call can return. Each holds the elements
\* of the set once; their order is the set's iteration order, which follows
\* the string hashes of the interpreter's run (PYTHONHASHSEED), so every
\* order is possible.
ListOf(set) ==
    {l \in [1..Cardinality(set) -> set] : {l[i] : i \in DOMAIN l} = set}

\* sum(s['tokenCount'] for s in processed_sentences)
RECURSIVE SumTokenCount(_)
SumTokenCount(processed) ==
    IF processed = <<>> THEN 0
    ELSE Head(processed).tokenCount + SumTokenCount(Tail(processed))

\* A Python number as the fraction <<numerator, denominator>> in lowest
\* terms; the int 0 and the float 0.0 are both <<0, 1>>.
RECURSIVE Gcd(_, _)
Gcd(a, b) == IF b = 0 THEN a ELSE Gcd(b, a % b)
TrueDiv(a, b) == <<a \div Gcd(a, b), b \div Gcd(a, b)>>

\* sum(...) / len(processed_sentences) if processed_sentences else 0
AvgTokens(processed) ==
    IF processed # <<>>
    THEN TrueDiv(SumTokenCount(processed), Len(processed))
    ELSE <<0, 1>>

\* ResponseData with the average taken over the sentences, not the records.
ResponseData_BySentenceCount(rid, sentences, processed, terms) ==
    {[requestId |-> rid,
      sentences |-> sentences,
      processedSentences |-> processed,
      keyTerms |-> key_list,
      sentenceCount |-> Len(sentences),
      stats |-> [totalTokens |-> SumTokenCount(processed),
                 avgTokensPerSentence |->
                     IF processed # <<>>
                     THEN TrueDiv(SumTokenCount(processed), Len(sentences))
                     ELSE <<0, 1>>,
                 keyTermCount |-> Cardinality(terms)]] :
        key_list \in ListOf(terms)}

\* The response_data dicts a request that got through the key-term loop can
\* build: one for each list that list(key_terms) can return.
ResponseData(rid, sentences, processed, terms) ==
    {[requestId |-> rid,
      sentences |-> sentences,
      processedSentences |-> processed,
      keyTerms |-> key_list,
      sentenceCount |-> Len(sentences),
      stats |-> [totalTokens |-> SumTokenCount(processed),
                 avgTokensPerSentence |-> AvgTokens(processed),
                 keyTermCount |-> Cardinality(terms)]] :
        key_list \in ListOf(terms)}

\* jsonify({'error': error_msg, 'requestId': request_id}), 400 or 500
ErrorResponse(code, reason, rid) ==
    [status |-> code, body |-> [error |-> reason, requestId |-> rid]]

\* datetime.now().strftime('%Y%m%d_%H%M%S_%f'): the seconds, then the
\* microseconds of the second, of a clock that counts microseconds.
FormatRequestId(now) == <<now \div MicrosPerSecond, now % MicrosPerSecond>>

\* ------------------------------------------------------------- the inputs

\* All strings over TextChars of at most n characters.
RECURSIVE StringsUpTo(_)
StringsUpTo(n) ==
    IF n = 0 THEN {<<>>}
    ELSE LET shorter == StringsUpTo(n - 1) IN
         shorter \cup {Append(s, c) : s \in shorter, c \in TextChars}

\* The values a request gives 'text': strings, and JSON values that are not.
TextValues ==
    {PyStr(s) : s \in StringsUpTo(MaxTextLen)}
      \cup {PyNone, PyInt(0), PyInt(5), PyBool(FALSE), PyList(<<>>), PyList(<<PyInt(1)>>)}

\* The values a request gives 'removeStopwords'; "no" is a truthy string.
RemoveValues == {PyBool(TRUE), PyBool(FALSE), PyInt(0), PyStr(<<110, 111>>)}

\* The JSON values that are no object: the falsy ones and a truthy one of
\* each type.
NonObjectPayloads ==
    {PyNone, PyBool(FALSE), PyInt(0), PyStr(<<>>), PyList(<<>>),
     PyBool(TRUE), PyInt(5), PyStr(<<97>>), PyList(<<PyInt(1)>>)}

\* request.json: any JSON value; the objects have some of the two keys.
Payloads ==
    NonObjectPayloads \cup {PyDict(<<>>)}
      \cup {PyDict([removeStopwords |-> v]) : v \in RemoveValues}
      \cup {PyDict([text |-> x]) : x \in TextValues}
      \cup {PyDict([text |-> x, removeStopwords |-> v]) : x \in TextValues, v \in RemoveValues}

\* The payloads of the concurrent specification: "af" (two key terms),
\* "bf" (a failing sentence) and "e" (a failing key-term loop).
ConcPayloads ==
    {PyDict([text |-> PyStr(<<97, 102>>)]),
     PyDict([text |-> PyStr(<<98, 102>>)]),
     PyDict([text |-> PyStr(<<101>>)])}

\* ------------------------------------------------------- the state machine

Requests == 1..NumReq

VARIABLES
    pc,                   \* where each request's handler is
    data,                 \* request.json
    request_id,
    text,
    remove_stopwords,
    sentence_texts,
    idx,                  \* the sentence loop's enumerate index
    processed_sentences,
    kiwi_calls,           \* calls made on kiwi_instance, per request
    response              \* what the handler returned

vars == <<pc, data, request_id, text, remove_stopwords, sentence_texts,
          idx, processed_sentences, kiwi_calls, response>>

NoResponse == [status |-> 0]

\* The name data before data = request.json has bound it.
Unbound == [t |-> "unbound"]

Init ==
    /\ pc = [r \in Requests |-> "idle"]
    /\ data = [r \in Requests |-> Unbound]
    /\ request_id = [r \in Requests |-> <<>>]
    /\ text = [r \in Requests |-> PyNone]
    /\ remove_stopwords = [r \in Requests |-> PyNone]
    /\ sentence_texts = [r \in Requests |-> <<>>]
    /\ idx = [r \in Requests |-> 0]
    /\ processed_sentences = [r \in Requests |-> <<>>]
    /\ kiwi_calls = [r \in Requests |-> [split_into_sents |-> 0, analyze |-> 0]]
    /\ response = [r \in Requests |-> NoResponse]

\* What datetime.now() can return: the local wall clock, in microseconds.
\* Two calls can return the same reading, and a later call an earlier one
\* (calls within one microsecond, the end of daylight saving time, a
\* correction of the system time), so a call returns any reading.
ClockReadings == 0..MaxClock

\* A request arrives: the handler names it (request_id = datetime.now()...)
\* and reads its body (data = request.json). request.json raises on a body
\* that is missing or is no JSON; that is inside the try, data stays unbound
\* and the outer handler answers 500.
Start(r, payloads) ==
    /\ pc[r] = "idle"
    /\ \E now \in ClockReadings :
          /\ request_id' = [request_id EXCEPT ![r] = FormatRequestId(now)]
          /\ \/ /\ \E payload \in payloads : data' = [data EXCEPT ![r] = payload]
                /\ pc' = [pc EXCEPT ![r] = "validate"]
                /\ UNCHANGED response
             \/ /\ response' = [response EXCEPT ![r] =
                                   ErrorResponse(500, "internal", FormatRequestId(now))]
                /\ pc' = [pc EXCEPT ![r] = "done"]
                /\ UNCHANGED data
    /\ UNCHANGED <<text, remove_stopwords, sentence_texts, idx,
                   processed_sentences, kiwi_calls>>

\* text = validate_input(data); remove_stopwords = data.get(..., True); the
\* TextRankPreprocessingError handler answers 400, and the handler of every
\* other exception 500.
Validate(r) ==
    /\ pc[r] = "validate"
    /\ LET v == validate_input(data[r]) IN
       IF v.ok
       THEN /\ text' = [text EXCEPT ![r] = v.text]
            /\ remove_stopwords' =
                 [remove_stopwords EXCEPT ![r] =
                     DictGet(data[r], "removeStopwords", PyBool(TRUE))]
            /\ pc' = [pc EXCEPT ![r] = "split"]
            /\ UNCHANGED response
       ELSE /\ response' =
                 [response EXCEPT ![r] =
                     ErrorResponse(IF v.raised = "TextRankPreprocessingError"
                                   THEN 400 ELSE 500,
                                   v.error, request_id[r])]
            /\ pc' = [pc EXCEPT ![r] = "done"]
            /\ UNCHANGED <<text, remove_stopwords>>
    /\ UNCHANGED <<data, request_id, sentence_texts, idx,
                   processed_sentences, kiwi_calls>>

\* sentences = kiwi_instance.split_into_sents(text); an exception reaches the
\* outer handler, which answers 500.
Split(r) ==
    /\ pc[r] = "split"
    /\ kiwi_calls' = [kiwi_calls EXCEPT ![r].split_into_sents = @ + 1]
    /\ LET s == split_into_sents(text[r]) IN
       IF s.raised
       THEN /\ response' = [response EXCEPT ![r] =
                              ErrorResponse(500, "internal", request_id[r])]
            /\ pc' = [pc EXCEPT ![r] = "done"]
            /\ UNCHANGED <<sentence_texts, idx, processed_sentences>>
       ELSE /\ sentence_texts' = [sentence_texts EXCEPT ![r] = s.value]
            /\ processed_sentences' = [processed_sentences EXCEPT ![r] = <<>>]
            /\ idx' = [idx EXCEPT ![r] = 0]
            /\ pc' = [pc EXCEPT ![r] = "sentences"]
            /\ UNCHANGED response
    /\ UNCHANGED <<data, request_id, text, remove_stopwords>>

\* OwnList with the list created once, outside the handler, so that every
\* request appends to the list of the first.
OwnList_Shared(r) == processed_sentences[1]

\* processed_sentences = []: a list of the handler's own call, so the list a
\* request appends to holds what that request appended before.
OwnList(r) == processed_sentences[r]

\* One iteration of for idx, sent_text in enumerate(sentence_texts): the
\* record is appended, or the except clause logs and continues.
Sentence(r) ==
    /\ pc[r] = "sentences"
    /\ idx[r] < Len(sentence_texts[r])
    /\ kiwi_calls' = [kiwi_calls EXCEPT ![r].analyze = @ + 1]
    /\ LET p == ProcessSentence(idx[r], sentence_texts[r][idx[r] + 1],
                                remove_stopwords[r]) IN
       processed_sentences' =
          [processed_sentences EXCEPT ![r] =
              IF p.raised THEN OwnList(r) ELSE Append(OwnList(r), p.value)]
    /\ idx' = [idx EXCEPT ![r] = @ + 1]
    /\ UNCHANGED <<pc, data, request_id, text, remove_stopwords,
                   sentence_texts, response>>

\* Outcome with the key-term loop outside the try: its exception leaves the
\* handler, which returns nothing.
Outcome_Uncaught(rid, sentences, processed) ==
    LET key_terms == ExtractKeyTerms(processed) IN
    IF key_terms.raised
    THEN {[status |-> 0]}
    ELSE {[status |-> 200, body |-> response_data] :
             response_data \in ResponseData(rid, sentences, processed,
                                            key_terms.value)}

\* What the handler can return after the sentence loop: jsonify of one of
\* the response_data dicts, or, when the key-term loop raises, the outer
\* handler's 500.
Outcome(rid, sentences, processed) ==
    LET key_terms == ExtractKeyTerms(processed) IN
    IF key_terms.raised
    THEN {ErrorResponse(500, "internal", rid)}
    ELSE {[status |-> 200, body |-> response_data] :
             response_data \in ResponseData(rid, sentences, processed,
                                            key_terms.value)}

\* After the loop: the key terms, the stats and the response.
Respond(r) ==
    /\ pc[r] = "sentences"
    /\ idx[r] = Len(sentence_texts[r])
    /\ \E outcome \in Outcome(request_id[r], sentence_texts[r],
                              processed_sentences[r]) :
          response' = [response EXCEPT ![r] = outcome]
    /\ pc' = [pc EXCEPT ![r] = "done"]
    /\ UNCHANGED <<data, request_id, text, remove_stopwords,
                   sentence_texts, idx, processed_sentences, kiwi_calls>>

Handle(r) == Validate(r) \/ Split(r) \/ Sentence(r) \/ Respond(r)

\* One request thread, every payload.
Next == Start(1, Payloads) \/ Handle(1)
Spec == Init /\ [][Next]_vars

\* NumReq request threads interleaved step by step.
ConcNext == \E r \in Requests : Start(r, ConcPayloads) \/ Handle(r)
ConcSpec == Init /\ [][ConcNext]_vars

\* ------------------------------------------------------------ properties

Done(r) == pc[r] = "done"
Succeeded(r) == Done(r) /\ response[r].status = 200

\* The request's payload passed validation and its text was segmented.
Segmented(r) ==
    /\ data[r] # Unbound
    /\ validate_input(data[r]).ok
    /\ ~split_into_sents(validate_input(data[r]).text).raised

\* The request asks for stopword removal: the flag is absent or truthy.
RemovalAsked(r) ==
    IF "removeStopwords" \in DOMAIN data[r].v
    THEN Truthy(data[r].v.removeStopwords)
    ELSE TRUE

\* The positions of the request's sentences whose per-sentence try raised.
FailedPositions(r) ==
    {i \in 0..(Len(sentence_texts[r]) - 1) :
        ProcessSentence(i, sentence_texts[r][i + 1], remove_stopwords[r]).raised}

\* The 'index' fields of a sequence of records.
Indices(processed) == [k \in 1..Len(processed) |-> processed[k].index]

\* A sequence of numbers is strictly increasing.
Increasing(seq) == \A i, j \in 1..Len(seq) : i < j => seq[i] < seq[j]

Range(seq) == {seq[i] : i \in 1..Len(seq)}

\* C1: every validated request whose text was segmented is answered with a
\* success response whose processedSentences holds exactly one record per
\* sentence position that did not fail, with index the position, in
\* increasing order; a failing sentence never aborts the request.
C1_FaultIsolation ==
    \A r \in Requests :
        (Done(r) /\ Segmented(r)) =>
            /\ response[r].status = 200
            /\ Increasing(Indices(response[r].body.processedSentences))
            /\ Range(Indices(response[r].body.processedSentences))
                 = (0..(Len(sentence_texts[r]) - 1)) \ FailedPositions(r)

\* The three sequences of a record have the length tokenCount.
ParallelRecord(rec) ==
    /\ Len(rec.tokens) = rec.tokenCount
    /\ Len(rec.normalized) = rec.tokenCount
    /\ Len(rec.posTags) = rec.tokenCount

\* C2: in every record of a success response, and of the list a request is
\* building, tokens, normalized and posTags have the length tokenCount.
C2_ParallelSequences ==
    \A r \in Requests :
        /\ \A k \in 1..Len(processed_sentences[r]) :
              ParallelRecord(processed_sentences[r][k])
        /\ Succeeded(r) =>
              \A k \in 1..Len(response[r].body.processedSentences) :
                  ParallelRecord(response[r].body.processedSentences[k])

\* C2's case: a success response with a record that lost a stopword, from a
\* request one of whose sentences failed midway through a morpheme ("d").
C2_Witness ==
    \E r \in Requests :
        /\ Succeeded(r)
        /\ PyStr(<<100>>) \in Range(sentence_texts[r])
        /\ \E k \in 1..Len(response[r].body.processedSentences) :
              LET rec == response[r].body.processedSentences[k] IN
              rec.sentence = PyStr(<<97>>) /\ rec.tokenCount = 3

\* The (surfaceForm, lower-cased surfaceForm, posTag) triples of the rank-0
\* candidate of a sentence the analyzer parsed.
Rank0Triples(sent_text) ==
    LET morphemes == analyze(sent_text).value[1][1] IN
    [i \in 1..Len(morphemes) |->
        <<morphemes[i][1], PyStr(Lower(morphemes[i][1].v)), morphemes[i][2]>>]
IsContentTriple(triple) == triple[2].v \notin KOREAN_STOPWORDS

\* C3: each record of a success response holds, in order, the triples of
\* its sentence's rank-0 candidate: all of them when removeStopwords is
\* falsy, those whose lower-cased form is no stopword when it is truthy or
\* absent (and then no element of normalized is a stopword).
C3_StopwordFiltering ==
    \A r \in Requests :
        Succeeded(r) =>
            \A k \in 1..Len(response[r].body.processedSentences) :
                LET rec == response[r].body.processedSentences[k]
                    all == Rank0Triples(rec.sentence)
                    want == IF RemovalAsked(r)
                            THEN SelectSeq(all, IsContentTriple)
                            ELSE all
                IN /\ rec.tokens = [i \in 1..Len(want) |-> want[i][1]]
                   /\ rec.normalized = [i \in 1..Len(want) |-> want[i][2]]
                   /\ rec.posTags = [i \in 1..Len(want) |-> want[i][3]]
                   /\ RemovalAsked(r) =>
                        \A i \in 1..Len(rec.normalized) :
                            rec.normalized[i].v \notin KOREAN_STOPWORDS

\* C3's case: a success response of a request without the flag, where one
\* record kept an upper-case form, lower-cased it and dropped a stopword
\* that stood between two kept morphemes, and another lower-cased a form
\* of four code points to one of five that ends in the final sigma.
C3_Witness ==
    \E r \in Requests :
        /\ Succeeded(r)
        /\ "removeStopwords" \notin DOMAIN data[r].v
        /\ \E k \in 1..Len(response[r].body.processedSentences) :
              LET rec == response[r].body.processedSentences[k] IN
              /\ rec.tokens[1] = PyStr(<<75, 105, 119, 105>>)
              /\ rec.normalized[1] = PyStr(<<107, 105, 119, 105>>)
              /\ rec.posTags[2] = PyStr(<<86, 86>>)
              /\ Len(Rank0Triples(rec.sentence)) > rec.tokenCount
        /\ \E k \in 1..Len(response[r].body.processedSentences) :
              LET rec == response[r].body.processedSentences[k] IN
              /\ rec.tokens[2] = PyStr(<<201, 304, 913, 931>>)
              /\ rec.normalized[2] = PyStr(<<233, 105, 775, 945, 962>>)

\* A tag of the noun or the verb family: its first character is N or V.
NounOrVerb(tag) == Len(tag.v) > 0 /\ tag.v[1] \in {78, 86}

\* The normalized forms of a sequence of records.
AllNormalized(processed) ==
    UNION {Range(processed[k].normalized) : k \in 1..Len(processed)}

\* C4: in every success response keyTerms holds exactly the normalized
\* forms that some emitted record tags N* or V*, each once.
C4_KeyTermMembership ==
    \A r \in Requests :
        Succeeded(r) =>
            LET body == response[r].body
                recs == body.processedSentences
            IN /\ \A t \in Range(body.keyTerms) \cup AllNormalized(recs) :
                     t \in Range(body.keyTerms) <=>
                        \E k \in 1..Len(recs) :
                            \E i \in 1..Len(recs[k].normalized) :
                                recs[k].normalized[i] = t /\ NounOrVerb(recs[k].posTags[i])
               /\ Cardinality(Range(body.keyTerms)) = Len(body.keyTerms)

\* C4's case: "kiwi" is tagged N in one record and V in another and is one
\* key term; "fast" (MAG) is emitted and is none; the N-tagged stopword
\* U+AC83 was filtered out and is none; a sentence failed.
C4_Witness ==
    \E r \in Requests :
        /\ Succeeded(r)
        /\ Len(response[r].body.processedSentences) = 2
        /\ Len(sentence_texts[r]) = 3
        /\ PyStr(<<107, 105, 119, 105>>) \in Range(response[r].body.keyTerms)
        /\ PyStr(<<102, 97, 115, 116>>) \in AllNormalized(response[r].body.processedSentences)
        /\ PyStr(<<44163>>) \notin Range(response[r].body.keyTerms)
        /\ response[r].body.processedSentences[1].posTags[1] = PyStr(<<78, 78, 80>>)
        /\ response[r].body.processedSentences[2].posTags[1] = PyStr(<<86, 65>>)
        /\ Len(response[r].body.keyTerms) = 2

\* The sum of tokenCount over the first n records.
RECURSIVE TokenCountUpTo(_, _)
TokenCountUpTo(processed, n) ==
    IF n = 0 THEN 0 ELSE TokenCountUpTo(processed, n - 1) + processed[n].tokenCount

\* C5: in every success response totalTokens is the sum of tokenCount over
\* processedSentences, avgTokensPerSentence is 0 when there is no record
\* and totalTokens / len(processedSentences) otherwise, and keyTermCount is
\* len(keyTerms).
C5_StatsConsistent ==
    \A r \in Requests :
        Succeeded(r) =>
            LET body == response[r].body
                recs == body.processedSentences
                avg == body.stats.avgTokensPerSentence
            IN /\ body.stats.totalTokens = TokenCountUpTo(recs, Len(recs))
               /\ avg[2] > 0
               /\ IF Len(recs) = 0
                  THEN avg[1] = 0
                  ELSE avg[1] * Len(recs) = avg[2] * body.stats.totalTokens
               /\ body.stats.keyTermCount = Len(body.keyTerms)

\* C5's case: a sentence failed, so the average (5 tokens in 2 records) is
\* taken over fewer records than there are sentences.
C5_Witness ==
    \E r \in Requests :
        /\ Succeeded(r)
        /\ Len(response[r].body.processedSentences) = 2
        /\ response[r].body.sentenceCount = 3
        /\ response[r].body.stats.totalTokens = 5
        /\ response[r].body.stats.avgTokensPerSentence = <<5, 2>>

\* The JSON values Python takes for false.
IsFalsyJson(x) == x \in {PyNone, PyBool(FALSE), PyInt(0), PyStr(<<>>), PyList(<<>>)}

\* The first of the four rejection conditions a payload meets, or "none".
\* A falsy JSON value counts as an empty payload, and a payload that is no
\* object has no 'text' key; a request whose body request.json could not
\* read has no payload that meets a condition.
Rejection(d) ==
    IF d = Unbound THEN "none"
    ELSE IF IsFalsyJson(d) \/ (d.t = "dict" /\ DOMAIN d.v = {}) THEN "empty_payload"
    ELSE IF d.t # "dict" THEN "missing_text"
    ELSE IF "text" \notin DOMAIN d.v \/ IsFalsyJson(d.v.text) THEN "missing_text"
    ELSE IF d.v.text.t # "str" THEN "not_string"
    ELSE IF \A i \in 1..Len(d.v.text.v) : IsSpace(d.v.text.v[i]) THEN "blank_text"
    ELSE "none"

\* C6: a request is answered 400 {error, requestId} exactly when its
\* payload is absent or empty, or lacks 'text' or gives it a falsy value,
\* or gives a 'text' that is no string, or a blank one, the first of these
\* that applies naming the reason; such a request never reaches the
\* segmenter or the analyzer.
C6_ValidationGate ==
    \A r \in Requests :
        /\ (pc[r] # "idle" /\ Rejection(data[r]) # "none") =>
              /\ pc[r] \in {"validate", "done"}
              /\ kiwi_calls[r] = [split_into_sents |-> 0, analyze |-> 0]
        /\ Done(r) =>
              /\ response[r].status = 400 <=> Rejection(data[r]) # "none"
              /\ response[r].status = 400 =>
                    response[r].body = [error |-> Rejection(data[r]),
                                        requestId |-> request_id[r]]

\* A failure of a finished request that the per-sentence try does not
\* contain: request.json raised (data was never bound), validation raises
\* something that is no validation error, the segmenter raises, or a record
\* the loop emitted holds a tag the key-term loop cannot read.
PipelineFailure(r) ==
    IF data[r] = Unbound THEN TRUE
    ELSE LET v == validate_input(data[r]) IN
         IF ~v.ok THEN v.raised # "TextRankPreprocessingError"
         ELSE \/ split_into_sents(v.text).raised
              \/ \E k \in 1..Len(processed_sentences[r]) :
                    \E i \in 1..Len(processed_sentences[r][k].posTags) :
                        processed_sentences[r][k].posTags[i].t # "str"

\* The handler of a request is at a step it can take: the guard of
\* Validate, Split, Sentence or Respond holds.
CanStep(r) ==
    \/ pc[r] \in {"validate", "split"}
    \/ pc[r] = "sentences" /\ idx[r] <= Len(sentence_texts[r])

\* What C7 asks of every state: a response exists exactly for a finished
\* request and is one of the three shapes, with the request's id; a running
\* handler can always take its next step; a pipeline failure is a 500.
C7_State ==
    \A r \in Requests :
        /\ response[r] # NoResponse <=> Done(r)
        /\ pc[r] \notin {"idle", "done"} => CanStep(r)
        /\ Done(r) =>
              /\ response[r].status \in {200, 400, 500}
              /\ response[r].status \in {400, 500} =>
                    DOMAIN response[r].body = {"error", "requestId"}
              /\ response[r].status = 200 =>
                    DOMAIN response[r].body =
                       {"requestId", "sentences", "processedSentences",
                        "keyTerms", "sentenceCount", "stats"}
              /\ response[r].body.requestId = request_id[r]
              /\ PipelineFailure(r) => response[r].status = 500

\* How far a handler has come.
Stage(p) ==
    CASE p = "idle" -> 0 [] p = "validate" -> 1 [] p = "split" -> 2
      [] p = "sentences" -> 3 [] p = "done" -> 4

\* What C7 asks of every step: a response, once given, stays, the id
\* generated when the request arrived is never replaced, and no handler
\* goes back.
C7_Step ==
    \A r \in Requests :
        /\ response[r] # NoResponse => response'[r] = response[r]
        /\ pc[r] # "idle" => request_id'[r] = request_id[r]
        /\ \/ Stage(pc'[r]) > Stage(pc[r])
           \/ Stage(pc'[r]) = Stage(pc[r]) /\ idx'[r] >= idx[r]

\* C7: every request ends in exactly one response, a success, a 400 or a
\* 500, carrying the id generated when the request arrived; a failure the
\* per-sentence try does not contain (reading the body, validation raising
\* something else than a validation error, segmentation, the key-term
\* loop) gives the 500, never an uncaught exception.
C7_OneResponse == [](C7_State) /\ [][C7_Step]_vars

\* C7's case: the sentence loop ran and the key-term loop then failed.
C7_Witness ==
    \E r \in Requests :
        /\ Done(r)
        /\ response[r].status = 500
        /\ kiwi_calls[r].analyze = 2
        /\ Len(processed_sentences[r]) = 2

\* C9: in every success response sentences is what the segmenter returned,
\* in order, sentenceCount is its length whatever failed, there are at most
\* that many records, and each record's index is a position of sentences
\* and its sentence the text at that position.
C9_SentencesAndIndices ==
    \A r \in Requests :
        Succeeded(r) =>
            LET body == response[r].body IN
            /\ body.sentences = split_into_sents(validate_input(data[r]).text).value
            /\ body.sentenceCount = Len(body.sentences)
            /\ Len(body.processedSentences) <= body.sentenceCount
            /\ \A k \in 1..Len(body.processedSentences) :
                  LET rec == body.processedSentences[k] IN
                  /\ 0 <= rec.index
                  /\ rec.index < body.sentenceCount
                  /\ rec.sentence = body.sentences[rec.index + 1]

\* C9's case: two of three sentences failed and the one record is the last
\* sentence's, so its index is not its place among the records.
C9_Witness ==
    \E r \in Requests :
        /\ Succeeded(r)
        /\ response[r].body.sentenceCount = 3
        /\ Len(response[r].body.processedSentences) = 1
        /\ response[r].body.processedSentences[1].index = 2

\* C8: any two requests the process has answered, one after the other or
\* concurrently, carry different requestId values.
C8_DistinctRequestIds ==
    \A r1, r2 \in Requests :
        (r1 # r2 /\ Done(r1) /\ Done(r2)) =>
            response[r1].body.requestId # response[r2].body.requestId

\* The sentence loop, run from position i to the end on a list of its own.
RECURSIVE RecordsFrom(_, _, _)
RecordsFrom(sentences, i, remove) ==
    IF i >= Len(sentences) THEN <<>>
    ELSE LET p == ProcessSentence(i, sentences[i + 1], remove) IN
         (IF p.raised THEN <<>> ELSE <<p.value>>) \o RecordsFrom(sentences, i + 1, remove)

\* What a payload alone determines of its response: the status and, apart
\* from the requestId and the order of keyTerms, the body.
ResultOf(payload) ==
    IF payload = Unbound THEN [status |-> 500, error |-> "internal"]
    ELSE
    LET v == validate_input(payload) IN
    IF ~v.ok
    THEN [status |-> IF v.raised = "TextRankPreprocessingError" THEN 400 ELSE 500,
          error |-> v.error]
    ELSE LET spans == split_into_sents(v.text) IN
         IF spans.raised THEN [status |-> 500, error |-> "internal"]
         ELSE LET recs == RecordsFrom(spans.value, 0,
                              DictGet(payload, "removeStopwords", PyBool(TRUE)))
                  terms == ExtractKeyTerms(recs)
              IN IF terms.raised THEN [status |-> 500, error |-> "internal"]
                 ELSE [status |-> 200,
                       sentences |-> spans.value,
                       processedSentences |-> recs,
                       keyTerms |-> terms.value,
                       stats |-> [totalTokens |-> SumTokenCount(recs),
                                  avgTokensPerSentence |-> AvgTokens(recs),
                                  keyTermCount |-> Cardinality(terms.value)]]

\* A response without its requestId, keyTerms as a set.
Observed(resp) ==
    IF resp.status = 200
    THEN [status |-> 200,
          sentences |-> resp.body.sentences,
          processedSentences |-> resp.body.processedSentences,
          keyTerms |-> Range(resp.body.keyTerms),
          stats |-> resp.body.stats]
    ELSE [status |-> resp.status, error |-> resp.body.error]

\* What C10 asks of every state: a finished request's result is the one its
\* payload determines, so two finished requests with one payload agree.
C10_State ==
    /\ \A r \in Requests : Done(r) => Observed(response[r]) = ResultOf(data[r])
    /\ \A r1, r2 \in Requests :
          (Done(r1) /\ Done(r2) /\ data[r1] = data[r2]) =>
              Observed(response[r1]) = Observed(response[r2])

\* The variables of one request.
Own(r) ==
    <<pc[r], data[r], request_id[r], text[r], remove_stopwords[r],
      sentence_texts[r], idx[r], processed_sentences[r], kiwi_calls[r], response[r]>>

\* What C10 asks of every step: a step of one request leaves what belongs
\* to every other request as it was.
C10_Step ==
    \A r1, r2 \in Requests :
        (r1 # r2 /\ Own(r1)' # Own(r1)) => Own(r2)' = Own(r2)

\* C10: with a deterministic segmenter and analyzer, the sentences,
\* processedSentences, keyTerms (as a set) and stats of a response are a
\* function of the request's payload alone, however the request is
\* interleaved with others, and no request changes what another reads (the
\* stopword set is a constant of the module).
C10_Deterministic == [](C10_State) /\ [][C10_Step]_vars

\* C10's case: two requests with the same payload, named at different
\* times, have both been answered successfully, and their keyTerms lists
\* hold the same two terms in different orders.
C10_Witness ==
    /\ Done(1) /\ Done(2)
    /\ data[1] = data[2]
    /\ request_id[1] # request_id[2]
    /\ response[1].status = 200
    /\ response[2].status = 200
    /\ Len(response[1].body.keyTerms) = 2
    /\ response[1].body.keyTerms # response[2].body.keyTerms

====
